---- MODULE Spec2Model ----
(***************************************************************************)
(* State-machine model of contrib/django/freppledb/execute/create.py:      *)
(* erase_model, createDates and create_model acting on the tables of the   *)
(* planning database.  A table is a set of rows; a row written since the   *)
(* last transaction.commit() is also held in `uncommitted`.                *)
(***************************************************************************)
EXTENDS Integers, Sequences, FiniteSets

VARIABLES
  db,           \* table name -> set of rows (the connection's view)
  uncommitted,  \* table name -> rows written since the last commit
  pc,           \* position of the running function, "idle" between calls
  args,         \* arguments of create_model
  rnd,          \* state of the pseudo-random generator (module random)
  gen,          \* the generator: multiplier and increment
  cnt,          \* create_model: counter for operationplan identifiers
  capacity,     \* create_model: computed bucket value
  i, j, k,      \* create_model: loop indices of cluster, demand, level
  total_demand, \* create_model: demand of the cluster not yet supplied
  buf,          \* create_model: the Buffer object held in `buf`
  oper,         \* create_model: name of the Operation held in `oper`
  exc,          \* an exception is propagating
  tbl,          \* erase_model: index in the table list
  result,       \* how the last call ended
  runs,         \* number of create_model calls so far: the caller makes two
  firstRun,     \* rows of the first create_model run that returned normally
  dateField     \* name of the date column of the Plan model

vars == <<db, uncommitted, pc, args, rnd, gen, cnt, capacity, i, j, k,
          total_demand, buf, oper, exc, tbl, result, runs, firstRun, dateField>>

----------------------------------------------------------------------------
\* Bounds of the model
MaxCluster == 2
MaxDemand == 3
MaxLevel == 4
MaxResource == 2
MaxPlans == 1
\* most operations and demands of one create_model call
MaxRows == 12
\* random() returns rnd / Modulus, a float in [0, 1)
Modulus == 100

\* Program constants
DaysPerYear == 365
NumCustomers == 100
RandomSeed == 100
FirstIdentifier == 100000
SecondsPerDay == 86400
AvgUnitsTimes100 == 550

\* utilization arguments, in percent (1.0 is 100)
Utilizations == {50, 100}
\* linear congruential generators standing for the library's generator
Generators == {<<21, 7>>, <<41, 13>>}

----------------------------------------------------------------------------
\* Formatting: '%05d' % n and friends
Digit(n) == <<"0", "1", "2", "3", "4", "5", "6", "7", "8", "9">>[n + 1]

RECURSIVE Digits(_)
Digits(n) == IF n < 10 THEN <<Digit(n)>> ELSE Append(Digits(n \div 10), Digit(n % 10))

Pad(n, w) ==
  LET d == Digits(n)
  IN  IF Len(d) >= w THEN d ELSE [x \in 1..(w - Len(d)) |-> "0"] \o d

LocName(c) == <<"Loc ">> \o Pad(c, 5)
DelName(c) == <<"Del ">> \o Pad(c, 5)
ItmName(c) == <<"Itm ">> \o Pad(c, 5)
SupName(c) == <<"Sup ">> \o Pad(c, 5)
\* Mutant: the level is left out of the buffer's name
BufNameNoLevel(c, l) == <<"Buf ">> \o Pad(c, 5)
BufName(c, l) == <<"Buf ">> \o Pad(c, 5) \o <<" L">> \o Pad(l, 2)
\* Mutant: the level is left out of the operation's name
OperNameNoLevel(c, l) == <<"Oper ">> \o Pad(c, 5)
OperName(c, l) == <<"Oper ">> \o Pad(c, 5) \o <<" L">> \o Pad(l, 2)
DmdName(c, d) == <<"Dmd ">> \o Pad(c, 5) \o <<" ">> \o Pad(d, 5)
CustName(n) == <<"Cust ">> \o Pad(n, 3)
ResName(n) == <<"Res ">> \o Pad(n, 3)
CalName(n) == <<"capacity for res ">> \o Pad(n, 3)

\* An absent (None) field is <<>>, a present one <<v>>
None == <<>>
Some(v) == <<v>>

----------------------------------------------------------------------------
\* Dates are offsets <<days, seconds>> from startdate = datetime(2007,1,1)
startdate == <<0, 0>>
StaleDate == <<-1, 0>>

\* The pseudo-random generator
\* Mutant: the generator is not seeded again
SeedKept(s) == rnd
\* random.seed(s)
Seed(s) == s % Modulus
NextRnd(s) == (gen[1] * s + gen[2]) % Modulus
\* the n-th next output of the generator
RECURSIVE Draw(_, _)
Draw(s, n) == IF n = 0 THEN s ELSE Draw(NextRnd(s), n - 1)

\* int(random.uniform(a, b)) for integers 0 <= a < b, on generator output u
IntUniform(a, b, u) == a + ((b - a) * u) \div Modulus
\* random.choice(seq)
Choice(seq, u) == seq[(u * Len(seq)) \div Modulus + 1]
\* getDate(): startdate + timedelta(random.uniform(0,365))
getDate(u) ==
  <<startdate[1] + (DaysPerYear * u) \div Modulus,
    (((DaysPerYear * u) % Modulus) * SecondsPerDay) \div Modulus>>
\* random.uniform(0,1) > 0.8
OverEightTenths(u) == 10 * u > 8 * Modulus

categories == <<"cat A", "cat B", "cat C", "cat D", "cat E", "cat F", "cat G">>
durations == <<0, 0, 0, SecondsPerDay, SecondsPerDay * 2, SecondsPerDay * 3,
               SecondsPerDay * 5, SecondsPerDay * 6>>
cust == [n \in 1..NumCustomers |-> CustName(n - 1)]
res == [n \in 1..args.resource |-> ResName(n - 1)]

----------------------------------------------------------------------------
\* Mutant: the operations are deleted before the items
EraseListParentFirst ==
  <<"out_problem", "out_flowplan", "out_loadplan", "out_operationplan",
    "dates", "demand", "forecastdemand", "forecast", "flow", "resourceload",
    "buffer", "resource", "operationplan", "operation", "suboperation",
    "item", "location", "bucket", "calendar", "customer">>

\* The tables erase_model empties, in its order
EraseList ==
  <<"out_problem", "out_flowplan", "out_loadplan", "out_operationplan",
    "dates", "demand", "forecastdemand", "forecast", "flow", "resourceload",
    "buffer", "resource", "operationplan", "item", "suboperation",
    "operation", "location", "bucket", "calendar", "customer">>

Range(f) == {f[x] : x \in DOMAIN f}
Tables == Range(EraseList) \cup {"plan"}

\* Primary key of a row
PK(t, r) ==
  CASE t \in {"location", "operation", "item", "buffer", "demand", "customer",
              "calendar", "resource"} -> r.name
    [] t = "dates" -> r.day
    [] t = "operationplan" -> r.identifier
    [] t = "plan" -> r.id
    [] OTHER -> r

\* Model.save() of the rows w[t] of each table t of w
Save(d, w) ==
  [t \in Tables |->
     IF t \in DOMAIN w
       THEN {r \in d[t] : \A n \in w[t] : PK(t, n) # PK(t, r)} \cup w[t]
       ELSE d[t]]

NoRows == [t \in Tables |-> {}]

\* transaction.commit()
Commit == NoRows

\* The rows of w, written and not yet committed
Written(w) == Save(uncommitted, w)

----------------------------------------------------------------------------
Engines == {"sqlite3", "postgresql_psycopg2", "mysql"}
\* The Plan model is defined in freppledb.input.models; create_model names
\* its date column `currentdate` in one branch and `current` in the other.
DateFields == {"currentdate", "current"}

PlanRow(n, d) == [id |-> n, name |-> "frepple", date |-> d]
NoBuffer == [name |-> <<>>, item |-> <<>>, location |-> <<>>, category |-> <<>>,
             producing |-> None, onhand |-> None]
Args(c, d, l, r, u) ==
  [cluster |-> c, demand |-> d, level |-> l, resource |-> r, utilization |-> u]
NoArgs == Args(0, 0, 0, 0, 0)

Init ==
  /\ \E m \in 0..MaxPlans :
       db = [t \in Tables |->
               IF t = "plan" THEN {PlanRow(n, StaleDate) : n \in 1..m} ELSE {}]
  /\ uncommitted = NoRows
  /\ pc = "idle"
  /\ args = NoArgs
  /\ rnd = 0
  /\ gen \in Generators
  /\ cnt = 0
  /\ capacity = 0
  /\ i = 0 /\ j = 0 /\ k = 0
  /\ total_demand = 0
  /\ buf = NoBuffer
  /\ oper = <<>>
  /\ exc = FALSE
  /\ tbl = 0
  /\ result = "none"
  /\ runs = 0
  /\ firstRun = None
  /\ dateField \in DateFields

Erased == \A t \in Range(EraseList) : db[t] = {}

----------------------------------------------------------------------------
\* erase_model

\* The entry of erase_model under settings.DATABASE_ENGINE = e: the PRAGMA
\* statement is sent to sqlite3 and to postgresql_psycopg2, and is no
\* statement of the latter.  An exception of create_model is not handled and
\* ends the caller, and the caller erases the model to create another.
erase_model(e) ==
  /\ pc = "idle"
  /\ result # "raised"
  /\ runs < 2
  /\ IF e = "postgresql_psycopg2"
       THEN /\ pc' = "idle"
            /\ result' = "erase_raised"
            /\ tbl' = 0
       ELSE /\ pc' = "erase"
            /\ result' = "running"
            /\ tbl' = 1
  /\ UNCHANGED <<db, uncommitted, args, rnd, gen, cnt, capacity, i, j, k,
                 total_demand, buf, oper, exc, runs, firstRun, dateField>>

\* One turn of the loop: delete the rows of the table, commit.  After the
\* last turn sqlite3 shrinks the database file, which changes no row.
EraseTable ==
  /\ pc = "erase"
  /\ db' = [db EXCEPT ![EraseList[tbl]] = {}]
  /\ uncommitted' = Commit
  /\ IF tbl = Len(EraseList)
       THEN /\ pc' = "idle"
            /\ result' = "erased"
            /\ tbl' = 0
       ELSE /\ pc' = "erase"
            /\ result' = result
            /\ tbl' = tbl + 1
  /\ UNCHANGED <<args, rnd, gen, cnt, capacity, i, j, k, total_demand, buf,
                 oper, exc, runs, firstRun, dateField>>

----------------------------------------------------------------------------
\* create_model

\* The entry of create_model: seed the generator, start the counter.  The
\* caller erases the model before it creates one, and repeats its arguments
\* when it calls again.
create_model(c, d, l, r, u) ==
  /\ pc = "idle"
  /\ result # "raised"
  /\ runs < 2
  /\ Erased
  /\ runs > 0 => args = Args(c, d, l, r, u)
  /\ args' = Args(c, d, l, r, u)
  /\ rnd' = Seed(RandomSeed)
  /\ cnt' = FirstIdentifier
  /\ exc' = FALSE
  /\ runs' = runs + 1
  /\ result' = "running"
  /\ pc' = "dates"
  /\ UNCHANGED <<db, uncommitted, gen, capacity, i, j, k, total_demand, buf,
                 oper, tbl, firstRun, dateField>>

\* Mutant: the loop starts a day late
DatesRowsShifted == {[day |-> startdate[1] + n] : n \in 1..DaysPerYear}

\* The rows of createDates
DatesRows == {[day |-> startdate[1] + n] : n \in 0..(DaysPerYear - 1)}

\* createDates(): save a row per day, commit
createDates ==
  /\ pc = "dates"
  /\ db' = Save(db, [dates |-> DatesRows])
  /\ uncommitted' = Commit
  /\ pc' = "plan"
  /\ UNCHANGED <<args, rnd, gen, cnt, capacity, i, j, k, total_demand, buf,
                 oper, exc, tbl, result, runs, firstRun, dateField>>

\* p = Plan.objects.all()[0]; p.currentdate = startdate; p.save()
\* The assignment sets the column when the column is named currentdate
UpdatePlan ==
  /\ pc = "plan"
  /\ \E p \in db["plan"] :
       LET q == IF dateField = "currentdate" THEN [p EXCEPT !.date = startdate]
                ELSE p
       IN  /\ db' = Save(db, [plan |-> {q}])
           /\ uncommitted' = Written([plan |-> {q}])
  /\ pc' = "customers"
  /\ UNCHANGED <<args, rnd, gen, cnt, capacity, i, j, k, total_demand, buf,
                 oper, exc, tbl, result, runs, firstRun, dateField>>

\* No plan: Plan(name="frepple", current=startdate); p.save()
\* The constructor raises TypeError unless the column is named current
CreatePlan ==
  /\ pc = "plan"
  /\ db["plan"] = {}
  /\ IF dateField = "current"
       THEN /\ db' = Save(db, [plan |-> {PlanRow(1, startdate)}])
            /\ uncommitted' = Written([plan |-> {PlanRow(1, startdate)}])
            /\ pc' = "customers"
            /\ exc' = exc
       ELSE /\ pc' = "finally"
            /\ exc' = TRUE
            /\ UNCHANGED <<db, uncommitted>>
  /\ UNCHANGED <<args, rnd, gen, cnt, capacity, i, j, k, total_demand, buf,
                 oper, tbl, result, runs, firstRun, dateField>>

CustomerRows == {[name |-> cust[n]] : n \in DOMAIN cust}

\* Create the customers, commit
CreateCustomers ==
  /\ pc = "customers"
  /\ db' = Save(db, [customer |-> CustomerRows])
  /\ uncommitted' = Commit
  /\ pc' = "resources"
  /\ UNCHANGED <<args, rnd, gen, cnt, capacity, i, j, k, total_demand, buf,
                 oper, exc, tbl, result, runs, firstRun, dateField>>

\* Mutant: the capacity is rounded down
CapacityRoundedDown(a) ==
  (a.cluster * a.demand * AvgUnitsTimes100 * 100)
    \div (a.resource * DaysPerYear * a.utilization)

\* int(float(cluster * demand * 550) / (resource * 365 * utilization)) + 1
\* with the utilization in percent
Capacity(a) ==
  (a.cluster * a.demand * AvgUnitsTimes100 * 100)
    \div (a.resource * DaysPerYear * a.utilization) + 1

\* The division raises ZeroDivisionError
ZeroDivision ==
  /\ pc = "resources"
  /\ args.resource * DaysPerYear * args.utilization = 0
  /\ pc' = "finally"
  /\ exc' = TRUE
  /\ UNCHANGED <<db, uncommitted, args, rnd, gen, cnt, capacity, i, j, k,
                 total_demand, buf, oper, tbl, result, runs, firstRun,
                 dateField>>

ResourceRows(cap) ==
  [calendar |-> {[name |-> CalName(n), category |-> "capacity"]
                   : n \in 0..(args.resource - 1)},
   bucket |-> {[startdate |-> startdate, value |-> cap, calendar |-> CalName(n)]
                   : n \in 0..(args.resource - 1)},
   resource |-> {[name |-> ResName(n), maximum |-> CalName(n)]
                   : n \in 0..(args.resource - 1)}]

\* Compute the capacity, create the resources and their calendars, commit
CreateResources ==
  /\ pc = "resources"
  /\ args.resource * DaysPerYear * args.utilization # 0
  /\ capacity' = Capacity(args)
  /\ db' = Save(db, ResourceRows(Capacity(args)))
  /\ uncommitted' = Commit
  /\ i' = 0
  /\ pc' = IF args.cluster > 0 THEN "cluster" ELSE "finally"
  /\ UNCHANGED <<args, rnd, gen, cnt, j, k, total_demand, buf, oper, exc,
                 tbl, result, runs, firstRun, dateField>>

\* Where the loop over the clusters goes after the demands of cluster i
AfterDemands == IF args.level > 0 THEN "level" ELSE "supply_op"

FlowRow(o, b, q, t) == [operation |-> o, thebuffer |-> b, quantity |-> q, type |-> t]
OperationRow(n, t, d, dp) ==
  [name |-> n, type |-> t, duration |-> d, duration_per |-> dp, sizemultiple |-> 1]
BufferRow(c, l, oh) ==
  [name |-> BufName(c, l), item |-> ItmName(c), location |-> LocName(c),
   category |-> Pad(l, 2), producing |-> None, onhand |-> oh]

\* Location, delivery operation, item, level 0 buffer and its flow
ClusterRows(c, u) ==
  [location |-> {[name |-> LocName(c)]},
   operation |-> {OperationRow(DelName(c), None, None, None)},
   item |-> {[name |-> ItmName(c), operation |-> DelName(c),
              category |-> Choice(categories, u)]},
   buffer |-> {BufferRow(c, 0, None)},
   flow |-> {FlowRow(DelName(c), BufName(c, 0), -1, None)}]

StartCluster ==
  /\ pc = "cluster"
  /\ LET w == ClusterRows(i, Draw(rnd, 1))
     IN  /\ db' = Save(db, w)
         /\ uncommitted' = Written(w)
  /\ rnd' = Draw(rnd, 1)
  /\ oper' = DelName(i)
  /\ buf' = BufferRow(i, 0, None)
  /\ total_demand' = 0
  /\ j' = 0
  /\ k' = 0
  /\ pc' = IF args.demand > 0 THEN "demand" ELSE AfterDemands
  /\ UNCHANGED <<args, gen, cnt, capacity, i, exc, tbl, result, runs,
                 firstRun, dateField>>

\* Demand j of cluster c; the five draws are made in the order of the arguments
DemandRow(c, d, s) ==
  [name |-> DmdName(c, d),
   item |-> ItmName(c),
   quantity |-> IntUniform(1, 11, Draw(s, 1)),
   due |-> getDate(Draw(s, 2)),
   priority |-> IntUniform(1, 4, Draw(s, 3)),
   customer |-> Choice(cust, Draw(s, 4)),
   category |-> Choice(categories, Draw(s, 5))]

CreateDemand ==
  /\ pc = "demand"
  /\ LET dm == DemandRow(i, j, rnd)
     IN  /\ db' = Save(db, [demand |-> {dm}])
         /\ uncommitted' = Written([demand |-> {dm}])
         /\ total_demand' = total_demand + dm.quantity
  /\ rnd' = Draw(rnd, 5)
  /\ j' = j + 1
  /\ pc' = IF j + 1 < args.demand THEN "demand" ELSE AfterDemands
  /\ UNCHANGED <<args, gen, cnt, capacity, i, k, buf, oper, exc, tbl,
                 result, runs, firstRun, dateField>>

\* Mutant: every second level is loaded on a resource
LoadsResourceOddLevels(l) == l % 2 = 1 /\ Len(res) > 0

\* if k == 1 and res
LoadsResource(l) == l = 1 /\ Len(res) > 0

\* The operation of level l: loaded on a resource, or with a duration
LevelOperation(c, l, u) ==
  IF LoadsResource(l)
    THEN OperationRow(OperName(c, l), Some("OPERATION_TIME_PER"), None,
                      Some(SecondsPerDay))
    ELSE OperationRow(OperName(c, l), None, Some(Choice(durations, u)), None)

LevelLoads(c, l, u) ==
  IF LoadsResource(l)
    THEN {[resource |-> Choice(res, u), operation |-> OperName(c, l)]}
    ELSE {}

\* if random.uniform(0,1) > 0.8: buf.onhand = int(random.uniform(5,20))
OnHand(s) ==
  IF OverEightTenths(Draw(s, 1)) THEN Some(IntUniform(5, 20, Draw(s, 2))) ELSE None
OnHandDraws(s) == IF OverEightTenths(Draw(s, 1)) THEN 2 ELSE 1

\* One upstream level: the operation produces into the buffer held in buf
\* and consumes from a new buffer one level up
CreateLevel ==
  /\ pc = "level"
  /\ LET o == LevelOperation(i, k, Draw(rnd, 1))
         b == [buf EXCEPT !.producing = Some(o.name)]
         s == Draw(rnd, 1)
         n == BufferRow(i, k + 1, OnHand(s))
         w == [operation |-> {o},
               resourceload |-> LevelLoads(i, k, Draw(rnd, 1)),
               buffer |-> {b, n},
               flow |-> {FlowRow(o.name, b.name, 1, Some("FLOW_END")),
                         FlowRow(o.name, n.name, -1, None)}]
     IN  /\ db' = Save(db, w)
         /\ uncommitted' = Written(w)
         /\ oper' = o.name
         /\ buf' = n
         /\ rnd' = Draw(s, OnHandDraws(s))
  /\ k' = k + 1
  /\ pc' = IF k + 1 < args.level THEN "level" ELSE "supply_op"
  /\ UNCHANGED <<args, gen, cnt, capacity, i, j, total_demand, exc, tbl, result, runs, firstRun, dateField>>

\* The supply operation and its flow into the last buffer
CreateSupplyOperation ==
  /\ pc = "supply_op"
  /\ LET w == [operation |-> {OperationRow(SupName(i), None, None, None)},
               flow |-> {FlowRow(SupName(i), buf.name, 1, None)}]
     IN  /\ db' = Save(db, w)
         /\ uncommitted' = Written(w)
  /\ oper' = SupName(i)
  /\ pc' = "supply"
  /\ UNCHANGED <<args, rnd, gen, cnt, capacity, i, j, k, total_demand, buf,
                 exc, tbl, result, runs, firstRun, dateField>>

\* The operationplan made with identifier n on generator state s: the date
\* is drawn first, the quantity second
SupplyRow(n, o, s) ==
  [identifier |-> n, operation |-> o,
   quantity |-> IntUniform(1, 100, Draw(s, 2)),
   startdate |-> getDate(Draw(s, 1)), enddate |-> getDate(Draw(s, 1))]

\* Mutant: the loop stops one unit short of the demand
SupplyContinuesOffByOne(td) == td > 1

\* while total_demand > 0
SupplyContinues(td) == td > 0

\* One turn of the supply loop
CreateSupply ==
  /\ pc = "supply"
  /\ SupplyContinues(total_demand)
  /\ LET opplan == SupplyRow(cnt + 1, oper, rnd)
     IN  /\ db' = Save(db, [operationplan |-> {opplan}])
         /\ uncommitted' = Written([operationplan |-> {opplan}])
         /\ total_demand' = total_demand - opplan.quantity
  /\ cnt' = cnt + 1
  /\ rnd' = Draw(rnd, 2)
  /\ UNCHANGED <<pc, args, gen, capacity, i, j, k, buf, oper, exc, tbl, result, runs, firstRun, dateField>>

\* The supply loop ends; commit the current cluster
CommitCluster ==
  /\ pc = "supply"
  /\ ~SupplyContinues(total_demand)
  /\ uncommitted' = Commit
  /\ i' = i + 1
  /\ pc' = IF i + 1 < args.cluster THEN "cluster" ELSE "finally"
  /\ UNCHANGED <<db, args, rnd, gen, cnt, capacity, j, k, total_demand, buf,
                 oper, exc, tbl, result, runs, firstRun, dateField>>

\* The persistence layer raises while cluster i is being built
RaiseInCluster ==
  /\ pc \in {"cluster", "demand", "level", "supply_op", "supply"}
  /\ exc' = TRUE
  /\ pc' = "finally"
  /\ UNCHANGED <<db, uncommitted, args, rnd, gen, cnt, capacity, i, j, k,
                 total_demand, buf, oper, tbl, result, runs, firstRun,
                 dateField>>

\* Mutant: no commit in the cleanup step
FinallyWithoutCommit ==
  /\ pc = "finally"
  /\ result' = IF exc THEN "raised" ELSE "returned"
  /\ pc' = "idle"
  /\ cnt' = 0
  /\ capacity' = 0
  /\ i' = 0 /\ j' = 0 /\ k' = 0
  /\ total_demand' = 0
  /\ buf' = NoBuffer
  /\ oper' = <<>>
  /\ UNCHANGED <<db, uncommitted, firstRun, args, rnd, gen, exc, tbl, runs,
                 dateField>>

\* The rows a run has generated: every table erase_model empties
Generated == [t \in Range(EraseList) |-> db[t]]

\* finally: commit it all, even in case of exceptions; then return or raise
Finally ==
  /\ pc = "finally"
  /\ uncommitted' = Commit
  /\ result' = IF exc THEN "raised" ELSE "returned"
  /\ firstRun' = IF ~exc /\ firstRun = None THEN Some(Generated) ELSE firstRun
  /\ pc' = "idle"
  /\ cnt' = 0
  /\ capacity' = 0
  /\ i' = 0 /\ j' = 0 /\ k' = 0
  /\ total_demand' = 0
  /\ buf' = NoBuffer
  /\ oper' = <<>>
  /\ UNCHANGED <<db, args, rnd, gen, exc, tbl, runs, dateField>>

----------------------------------------------------------------------------
\* The caller: erase_model under any engine, create_model with any arguments
\* within the bounds
CallEraseModel ==
  /\ pc = "idle"
  /\ \E e \in Engines : erase_model(e)

CallCreateModel ==
  /\ pc = "idle"
  /\ \E c \in 0..MaxCluster, d \in 0..MaxDemand, l \in 0..MaxLevel,
        r \in 0..MaxResource, u \in Utilizations :
          /\ c * (d + l + 2) <= MaxRows
          /\ create_model(c, d, l, r, u)

Next ==
  \/ CallEraseModel
  \/ EraseTable
  \/ CallCreateModel
  \/ createDates
  \/ UpdatePlan
  \/ CreatePlan
  \/ CreateCustomers
  \/ ZeroDivision
  \/ CreateResources
  \/ StartCluster
  \/ CreateDemand
  \/ CreateLevel
  \/ CreateSupplyOperation
  \/ CreateSupply
  \/ CommitCluster
  \/ RaiseInCluster
  \/ Finally

Spec == Init /\ [][Next]_vars

----------------------------------------------------------------------------
\* Vocabulary of the properties

CreatePcs == {"dates", "plan", "customers", "resources", "cluster", "demand",
              "level", "supply_op", "supply", "finally"}
ClusterPcs == {"cluster", "demand", "level", "supply_op", "supply"}

\* create_model has returned normally; its rows are those of db, which was
\* erased when it was called
Returned == pc = "idle" /\ result = "returned"
\* create_model has ended with an exception
Raised == pc = "idle" /\ result = "raised"

\* The clusters whose commit has been done
CommittedClusters ==
  IF Returned THEN 0..(args.cluster - 1)
  ELSE IF pc \in ClusterPcs \cup {"finally"} THEN 0..(i - 1)
  ELSE {}

RECURSIVE SumQuantity(_)
SumQuantity(S) ==
  IF S = {} THEN 0
  ELSE LET r == CHOOSE x \in S : TRUE IN r.quantity + SumQuantity(S \ {r})

DemandsOf(c) == {r \in db["demand"] : r.item = ItmName(c)}
SuppliesOf(c) == {r \in db["operationplan"] : r.operation = SupName(c)}
LastSupply(c) ==
  CHOOSE r \in SuppliesOf(c) : \A x \in SuppliesOf(c) : x.identifier <= r.identifier

\* C1: in every committed cluster the quantities of the operationplans of
\* its supply operation sum to at least the quantities of its demands, and
\* the supply loop has stopped at the first operationplan that covers the
\* demand: without the last one the supply falls short, and no operationplan
\* is made when there is no demand.
C1_SupplyCoversDemand ==
  \A c \in CommittedClusters :
    /\ SumQuantity(SuppliesOf(c)) >= SumQuantity(DemandsOf(c))
    /\ \A r \in DemandsOf(c) : r.quantity \in 1..10
    /\ \A r \in SuppliesOf(c) : r.quantity \in 1..99
    /\ (SuppliesOf(c) = {}) = (SumQuantity(DemandsOf(c)) = 0)
    /\ SuppliesOf(c) # {} =>
         SumQuantity(SuppliesOf(c)) - LastSupply(c).quantity
           < SumQuantity(DemandsOf(c))

\* A committed cluster whose demand took more than one operationplan
C1_Witness ==
  /\ Returned
  /\ \E c \in CommittedClusters :
       /\ Cardinality(SuppliesOf(c)) >= 2
       /\ Cardinality(DemandsOf(c)) >= 2

\* C2: once createDates has run, the dates table holds exactly 365 rows,
\* one for each of the days startdate, startdate + 1, ..., startdate + 364.
C2_DatesContiguous ==
  (pc \in CreatePcs \ {"dates"} /\ result = "running") =>
    /\ Cardinality(db["dates"]) = 365
    /\ {r.day : r \in db["dates"]} = startdate[1]..(startdate[1] + 364)

C2_Witness == pc = "plan" /\ db["dates"] # {} /\ uncommitted = NoRows

OperationNames == {r.name : r \in db["operation"]}

\* C3: a run of create_model that returns normally has created exactly
\* cluster * (level + 2) operations: per cluster one delivery operation,
\* `level` chain operations and one supply operation.
C3_OperationCount ==
  Returned =>
    /\ Cardinality(db["operation"]) = args.cluster * (args.level + 2)
    /\ OperationNames =
         UNION {{DelName(c), SupName(c)} \cup
                  {OperName(c, l) : l \in 0..(args.level - 1)}
                : c \in 0..(args.cluster - 1)}

C3_Witness == Returned /\ args.cluster = 2 /\ args.level = 3

\* C4: two runs of create_model with the same arguments, each on an erased
\* store, generate the same rows.
C4_Deterministic ==
  (Returned /\ runs = 2 /\ firstRun # None) => Generated = firstRun[1]

C4_Witness ==
  /\ Returned /\ runs = 2 /\ firstRun # None
  /\ args.cluster = 2 /\ args.demand = 2 /\ args.level = 2
  /\ \E r \in db["buffer"] : r.onhand # None

\* C5: create_model creates `resource` resources, each with a calendar of
\* its own that holds one bucket, and every bucket has the value
\* int(cluster * demand * 550 / (resource * 365 * utilization)) + 1, the
\* integer v with v - 1 <= cluster * demand * 550 / (resource * 365 *
\* utilization) < v; for cluster 2, demand 3, level 1, resource 1 and
\* utilization 1.0 the value is 10 and there are 2 locations, 2 items and
\* 6 demands.
C5_Resources ==
  Returned =>
    /\ Cardinality(db["resource"]) = args.resource
    /\ Cardinality(db["calendar"]) = args.resource
    /\ Cardinality(db["bucket"]) = args.resource
    /\ \A r \in db["resource"] :
         /\ \E c \in db["calendar"] : c.name = r.maximum
         /\ \A q \in db["resource"] : q.maximum = r.maximum => q = r
         /\ Cardinality({b \in db["bucket"] : b.calendar = r.maximum}) = 1
    /\ \A b \in db["bucket"] :
         LET need == args.cluster * args.demand * 550 * 100
             have == args.resource * 365 * args.utilization
         IN  (b.value - 1) * have <= need /\ need < b.value * have
    /\ args = Args(2, 3, 1, 1, 100) =>
         /\ \A b \in db["bucket"] : b.value = 10
         /\ Cardinality(db["location"]) = 2
         /\ Cardinality(db["item"]) = 2
         /\ Cardinality(db["demand"]) = 6

C5_Witness == Returned /\ args = Args(2, 3, 1, 1, 100)

\* The plan step of the running create_model is over
PlanStepOver == pc \in CreatePcs \ {"dates", "plan"} /\ result = "running"

\* C6: after the plan step of create_model exactly one Plan record exists
\* and its current date is startdate, whatever the Plan records of the
\* store before the run.
C6_OnePlanAtStart ==
  PlanStepOver =>
    /\ Cardinality(db["plan"]) = 1
    /\ \A p \in db["plan"] : p.date = startdate

\* The foreign keys of the rows create_model writes: <<child, parent>>
References ==
  {<<"item", "operation">>, <<"buffer", "item">>, <<"buffer", "location">>,
   <<"buffer", "operation">>, <<"flow", "operation">>, <<"flow", "buffer">>,
   <<"demand", "item">>, <<"demand", "customer">>,
   <<"resourceload", "resource">>, <<"resourceload", "operation">>,
   <<"bucket", "calendar">>, <<"resource", "calendar">>,
   <<"operationplan", "operation">>}

OperationsOf(c) ==
  {DelName(c), SupName(c)} \cup {OperName(c, l) : l \in 0..(args.level - 1)}

\* The rows of table t that belong to cluster c
OfCluster(t, c) ==
  LET ops == OperationsOf(c)
      itm == ItmName(c)
  IN  CASE t = "location" -> {r \in db[t] : r.name = LocName(c)}
        [] t = "item" -> {r \in db[t] : r.name = itm}
        [] t \in {"buffer", "demand"} -> {r \in db[t] : r.item = itm}
        [] t = "operation" -> {r \in db[t] : r.name \in ops}
        [] t \in {"flow", "resourceload"} -> {r \in db[t] : r.operation \in ops}
        [] t = "operationplan" -> {r \in db[t] : r.operation = SupName(c)}
        [] OTHER -> {}

\* C8: while cluster i is built every uncommitted row is a row of cluster
\* i, so the dates, the plan, the customers, the resources and the clusters
\* before i are committed; a committed cluster holds its location, its item
\* and its supply operation; an uncommitted row is a row of the store; and
\* when create_model ends, normally or by an exception, no written row is
\* left uncommitted.
C8_CommittedOnFailure ==
  /\ pc \in ClusterPcs \cup {"finally"} =>
       /\ \A t \in Tables : uncommitted[t] \subseteq OfCluster(t, i)
       /\ \A c \in CommittedClusters :
            /\ \E r \in db["location"] \ uncommitted["location"] : r.name = LocName(c)
            /\ \E r \in db["item"] \ uncommitted["item"] : r.name = ItmName(c)
            /\ \E r \in db["operation"] \ uncommitted["operation"] : r.name = SupName(c)
  /\ \A t \in Tables : uncommitted[t] \subseteq db[t]
  /\ (Returned \/ Raised) => uncommitted = NoRows

\* create_model has raised in its second cluster, after a demand of it was
\* saved: the first cluster is whole and the second has no supply operation
C8_Witness ==
  /\ Raised
  /\ \E r \in db["operation"] : r.name = SupName(0)
  /\ \E r \in db["demand"] : r.name = DmdName(1, 0)
  /\ \A r \in db["operation"] : r.name # SupName(1)

\* The operation of level l of cluster c has a resource load
HasLoad(c, l) ==
  /\ \E o \in db["operation"] :
       /\ o.name = OperName(c, l)
       /\ o.type = Some("OPERATION_TIME_PER")
       /\ o.duration = None
  /\ Cardinality({r \in db["resourceload"] : r.operation = OperName(c, l)}) = 1
  /\ \A r \in db["resourceload"] :
       r.operation = OperName(c, l) => \E x \in db["resource"] : x.name = r.resource

\* The operation of level l of cluster c has a duration of the list and no load
HasDuration(c, l) ==
  /\ \E o \in db["operation"] :
       /\ o.name = OperName(c, l)
       /\ o.type = None
       /\ o.duration # None
       /\ o.duration[1] \in Range(durations)
  /\ \A r \in db["resourceload"] : r.operation # OperName(c, l)

\* C9 as claimed: every second level (k = 1, 3, ...) of the chain of a
\* cluster has a resource load and every other level a duration.
C9_EverySecondLevel ==
  Returned =>
    \A c \in 0..(args.cluster - 1), l \in 0..(args.level - 1) :
      IF l % 2 = 1 THEN HasLoad(c, l) ELSE HasDuration(c, l)

\* C9 amended: level 1 alone has a resource load, every other level of the
\* chain has a duration of the list and no load.
C9_LevelOneOnly ==
  Returned =>
    \A c \in 0..(args.cluster - 1), l \in 0..(args.level - 1) :
      IF l = 1 THEN HasLoad(c, l) ELSE HasDuration(c, l)

C9_Witness == Returned /\ args.cluster = 2 /\ args.level = 4

\* The flows of operation o
FlowsOf(o) == {r \in db["flow"] : r.operation = o}
Flows(o, b, sign) ==
  \E r \in FlowsOf(o) : r.thebuffer = b /\ r.quantity * sign > 0

\* What C10 says of the delivery and supply operations and of the buffers
ChainEnds(c) ==
  /\ {r.name : r \in OfCluster("buffer", c)} = {BufName(c, l) : l \in 0..args.level}
  /\ Cardinality(OfCluster("buffer", c)) = args.level + 1
  /\ Cardinality(FlowsOf(DelName(c))) = 1
  /\ Flows(DelName(c), BufName(c, 0), -1)
  /\ Cardinality(FlowsOf(SupName(c))) = 1
  /\ Flows(SupName(c), BufName(c, args.level), 1)
  /\ \A r \in OfCluster("flow", c) :
       \E b \in OfCluster("buffer", c) : b.name = r.thebuffer
  /\ Cardinality(OfCluster("flow", c)) = 2 * args.level + 2

\* C10 as claimed: the operation of stage k consumes the buffer of level k
\* and produces the buffer of level k + 1.
C10_ChainAsClaimed ==
  Returned =>
    \A c \in 0..(args.cluster - 1) :
      /\ ChainEnds(c)
      /\ \A l \in 0..(args.level - 1) :
           /\ Cardinality(FlowsOf(OperName(c, l))) = 2
           /\ Flows(OperName(c, l), BufName(c, l), -1)
           /\ Flows(OperName(c, l), BufName(c, l + 1), 1)

\* C10 amended: the operation of stage k produces the buffer of level k and
\* consumes the buffer of level k + 1; the rest as claimed.
C10_Chain ==
  Returned =>
    \A c \in 0..(args.cluster - 1) :
      /\ ChainEnds(c)
      /\ \A l \in 0..(args.level - 1) :
           /\ Cardinality(FlowsOf(OperName(c, l))) = 2
           /\ Flows(OperName(c, l), BufName(c, l), 1)
           /\ Flows(OperName(c, l), BufName(c, l + 1), -1)

C10_Witness == Returned /\ args.cluster = 2 /\ args.level = 2 /\ args.demand = 1

====
